---- MODULE Spec2Model ----
(***************************************************************************)
(* A model of client/sources-linux/list.c: a doubly linked list guarded by *)
(* one pthread mutex.  Every public function is modelled as the sequence   *)
(* of steps a thread takes through it: the checks before the lock, the     *)
(* lock acquisition with the straight-line code that follows it, the loop  *)
(* of the critical section (one step per iteration), and the unlock with   *)
(* the return.  The specifications share these steps: Spec lets every     *)
(* thread call any function with any argument on a list that stays live;   *)
(* SpecPushers, SpecDrain, SpecTally, SpecLife and SpecCountGet give the   *)
(* callers a script; SpecFair adds the scheduling of a fair mutex;         *)
(* SpecReenter lets a callback call the list; SpecDestroy lets             *)
(* list_destroy run among other calls.                                     *)
(***************************************************************************)
EXTENDS Integers, Sequences, FiniteSets, TLC

(* ------------------------------ bounds --------------------------------- *)
\* Number of threads calling into the list.
NThreads == 2
\* Size of the heap arena malloc hands Nodes out of.
MaxNodes == 4
\* Callers of the free-running specification stop inserting at this many Nodes.
MaxLen == 3
\* Payload references are 0 (NULL) and 1..MaxData.
MaxData == 2
\* Pushes per thread in the concurrent-pushes scenario.
MPush == 2

NULL == 0
Threads == 1..NThreads
Nodes == 1..MaxNodes
Data == 0..MaxData
\* Values of an index argument: every position of a full list, and one past it.
Indexes == 0..MaxLen
\* The list argument: NULL or the one list instance.
TheList == 1
PLists == {NULL, TheList}

(* ------------------------------- state --------------------------------- *)
VARIABLES
    start,   \* pList->start
    end,     \* pList->end
    count,   \* pList->count
    lock,    \* pList->lock: 0 when free, a thread when held; Destroyed, Freed below
    node,    \* heap: Node -> [data, next, prev]
    alloc,   \* the Nodes malloc has handed out and free has not taken back
    th,      \* per thread: the frame of the call in progress (its position and locals)
    cblog,   \* per thread: the <<payload, result>> of each callback invocation of its enumerate
    abs,     \* history: the abstract sequence, advanced at each lock acquisition
    exp,     \* history: per thread, what the abstract sequence says its call returns
    pre,     \* history: per thread, the chain's <<Node, payload>> pairs when its call took the lock
    race,    \* history: TRUE once a thread has read or written start/end/count or a chained
             \* Node in a step that did not leave it holding the lock
    fault,   \* TRUE once a thread has dereferenced NULL or freed memory: from
             \* then on the behaviour of the process is undefined
    scen     \* the callers' script in the scenario specifications, and how far they are in it

listVars == <<start, end, count>>
heapVars == <<node, alloc>>
histVars == <<abs, exp, pre>>
vars == <<start, end, count, lock, node, alloc, th, cblog, abs, exp, pre, race, fault, scen>>

\* pList->lock after pthread_mutex_destroy, and after free(pList), which
\* releases start, end and count with it.
Destroyed == NThreads + 1
Freed == NThreads + 2

\* A freed (or never allocated) Node: its contents are not part of the state.
ZeroNode == [data |-> NULL, next |-> NULL, prev |-> NULL]

\* The frame of a thread that is not inside any list function.
IdleFrame ==
    [pc |-> "idle", op |-> "none", pList |-> NULL, data |-> NULL, index |-> 0,
     i0 |-> 0, cur |-> NULL, result |-> FALSE, cb |-> FALSE, cnt |-> 0,
     outer |-> << >>]

\* (ret and oret hold a bool, a count or a payload: they are kept as text)
NoExp == [ret |-> "", oret |-> "", seq |-> << >>, had |-> FALSE]

(* --------------------------- pure helpers ------------------------------ *)
\* unsigned int arithmetic: TLC's integers are 32-bit signed, so the modulus
\* stands for 2^32; it is met only by 0 - 1.
UIntMod == 2147483647
USub(a, b) == (a - b) % UIntMod
UAdd(a, b) == (a + b) % UIntMod

Min(S) == CHOOSE x \in S : \A y \in S : x <= y

\* The payloads met following next from n, at most fuel hops.
RECURSIVE WalkData(_, _)
WalkData(n, fuel) ==
    IF n = NULL \/ fuel = 0 THEN << >>
    ELSE <<node[n].data>> \o WalkData(node[n].next, fuel - 1)

\* The Nodes met following next from n, at most fuel hops.
RECURSIVE WalkNodes(_, _)
WalkNodes(n, fuel) ==
    IF n = NULL \/ fuel = 0 THEN << >>
    ELSE <<n>> \o WalkNodes(node[n].next, fuel - 1)

ChainSeq == WalkData(start, MaxNodes + 1)
ChainNodes == WalkNodes(start, MaxNodes + 1)
InChain(n) == \E i \in 1..Len(ChainNodes) : ChainNodes[i] = n

\* The chain as the sequence of its <<Node, payload>> pairs.
ChainPairs == [i \in 1..Len(ChainNodes) |-> <<ChainNodes[i], node[ChainNodes[i]].data>>]

Range(s) == {s[i] : i \in 1..Len(s)}
Front(s) == SubSeq(s, 1, Len(s) - 1)
\* The position of the first occurrence of x in s, 0 when there is none.
FirstPos(s, x) ==
    IF x \in Range(s) THEN Min({i \in 1..Len(s) : s[i] = x}) ELSE 0
\* s without its element at position p (1-based).
DropAt(s, p) == SubSeq(s, 1, p - 1) \o SubSeq(s, p + 1, Len(s))

\* What each function returns when it is given no list.
FailVal(o) ==
    CASE o \in {"get", "pop", "shift"} -> NULL
      [] o = "count" -> 0
      [] OTHER -> FALSE

\* The abstract sequence machine: the sequence after the call of frame f on s,
\* what the call returns (ret), and what it would return if remove treated
\* NULL like any other payload (oret).
AbsApply(f, s) ==
    CASE f.pList = NULL ->
           [seq |-> s, ret |-> FailVal(f.op), oret |-> FailVal(f.op)]
      [] f.op = "push" ->
           IF f.cur = NULL THEN [seq |-> s, ret |-> FALSE, oret |-> FALSE]
           ELSE [seq |-> Append(s, f.data), ret |-> TRUE, oret |-> TRUE]
      [] f.op = "pop" ->
           IF s = << >> THEN [seq |-> s, ret |-> NULL, oret |-> NULL]
           ELSE [seq |-> Front(s), ret |-> s[Len(s)], oret |-> s[Len(s)]]
      [] f.op = "shift" ->
           IF s = << >> THEN [seq |-> s, ret |-> NULL, oret |-> NULL]
           ELSE [seq |-> Tail(s), ret |-> s[1], oret |-> s[1]]
      [] f.op = "remove" ->
           IF f.data = NULL
           THEN [seq |-> s, ret |-> FALSE, oret |-> (NULL \in Range(s))]
           ELSE IF FirstPos(s, f.data) = 0
                THEN [seq |-> s, ret |-> FALSE, oret |-> FALSE]
                ELSE [seq |-> DropAt(s, FirstPos(s, f.data)), ret |-> TRUE, oret |-> TRUE]
      [] f.op = "delete" ->
           IF f.i0 < Len(s)
           THEN [seq |-> DropAt(s, f.i0 + 1), ret |-> TRUE, oret |-> TRUE]
           ELSE [seq |-> s, ret |-> FALSE, oret |-> FALSE]
      [] f.op = "get" ->
           IF f.i0 < Len(s)
           THEN [seq |-> s, ret |-> s[f.i0 + 1], oret |-> s[f.i0 + 1]]
           ELSE [seq |-> s, ret |-> NULL, oret |-> NULL]
      [] f.op = "count" ->
           [seq |-> s, ret |-> Len(s), oret |-> Len(s)]
      [] f.op = "destroy" ->
           [seq |-> << >>, ret |-> FALSE, oret |-> FALSE]
      [] OTHER ->
           [seq |-> s, ret |-> FALSE, oret |-> FALSE]

\* What the call whose frame is f hands back to its caller.
RetVal(f) ==
    CASE f.op \in {"push", "remove", "delete", "enumerate"} -> f.result
      [] f.op \in {"get", "pop", "shift"} -> f.data
      [] f.op = "count" -> f.cnt
      [] OTHER -> FALSE

(* ----------------------------- primitives ------------------------------ *)
At(t, o, p) == th[t].op = o /\ th[t].pc = p
Goto(t, f) == th' = [th EXCEPT ![t] = f]
\* No call is in progress.
Quiescent == \A t \in Threads : th[t].pc = "idle"

\* malloc(sizeof(NODE)): a free Node of the arena, or NULL.  Which free Node
\* is returned does not matter to the list, so the lowest one stands for all.
MallocResults ==
    IF Nodes \ alloc = {} THEN {NULL} ELSE {Min(Nodes \ alloc), NULL}

\* (a recursive mutex: the thread that holds it may lock it again)
Acquire_recursive(t) ==
    /\ lock \in {0, t}
    /\ lock' = t
    /\ abs' = AbsApply(th[t], abs).seq
    /\ exp' = [exp EXCEPT ![t] = [ret |-> ToString(AbsApply(th[t], abs).ret),
                                  oret |-> ToString(AbsApply(th[t], abs).oret),
                                  seq |-> IF th[t].op = "enumerate" THEN abs ELSE << >>,
                                  had |-> FALSE]]
    /\ pre' = [pre EXCEPT ![t] = ChainPairs]

\* (a lock that does not wait for the mutex to be free)
Acquire_nowait(t) ==
    /\ lock' = t
    /\ abs' = AbsApply(th[t], abs).seq
    /\ exp' = [exp EXCEPT ![t] = [ret |-> ToString(AbsApply(th[t], abs).ret),
                                  oret |-> ToString(AbsApply(th[t], abs).oret),
                                  seq |-> IF th[t].op = "enumerate" THEN abs ELSE << >>,
                                  had |-> FALSE]]
    /\ pre' = [pre EXCEPT ![t] = ChainPairs]

\* pthread_mutex_lock: blocks until the mutex is free.  The history variables
\* record the abstract call at this point.
Acquire(t) ==
    /\ lock = 0
    /\ lock' = t
    /\ abs' = AbsApply(th[t], abs).seq
    /\ exp' = [exp EXCEPT ![t] = [ret |-> ToString(AbsApply(th[t], abs).ret),
                                  oret |-> ToString(AbsApply(th[t], abs).oret),
                                  seq |-> IF th[t].op = "enumerate" THEN abs ELSE << >>,
                                  had |-> FALSE]]
    /\ pre' = [pre EXCEPT ![t] = ChainPairs]

\* pthread_mutex_unlock, and the return that follows it: the frame is gone.
Release(t) ==
    /\ lock' = 0
    /\ Goto(t, IdleFrame)
    /\ exp' = [exp EXCEPT ![t] = NoExp]
    /\ pre' = [pre EXCEPT ![t] = << >>]
    /\ UNCHANGED abs

\* The step of thread t reads or writes start, end, count or a chained Node.
Touch(t) == race' = (race \/ lock' # t)

\* The tally of the removals that succeeded, kept by the tally scenario and,
\* once its list_count has returned, by the count-then-get scenario.
Tallied(removed) ==
    scen' = IF scen.phase \in {"tally", "counted", "get"} /\ removed
            THEN [scen EXCEPT !.nrem = @ + 1]
            ELSE scen

\* The caller of the count-then-get scenario keeps what its list_count
\* returns (and, for the record, the payloads the chain held).
Noted(t) ==
    scen' = IF scen.phase = "count"
            THEN [scen EXCEPT !.phase = "counted", !.n = th[t].cnt, !.snap = ChainSeq]
            ELSE scen

\* A call that returns without taking the lock: the abstract call is recorded
\* where it is made (had: whether the chain then held the payload a remove names).
NoLock(t, f) ==
    /\ abs' = AbsApply(f, abs).seq
    /\ exp' = [exp EXCEPT ![t] = [ret |-> ToString(AbsApply(f, abs).ret),
                                  oret |-> ToString(AbsApply(f, abs).oret),
                                  seq |-> << >>,
                                  had |-> (f.op = "remove" /\ f.pList # NULL
                                           /\ f.data \in Range(ChainSeq))]]
    /\ UNCHANGED pre

(* ------------------------------ list_push ------------------------------ *)
\* (a push whose failed allocation still takes the arena's free Nodes)
list_push_leak(t, pl, d) ==
    /\ th[t].pc = "idle"
    /\ \E n \in MallocResults :
         LET f == IF pl = NULL THEN [IdleFrame EXCEPT !.op = "push"]
                  ELSE [IdleFrame EXCEPT !.op = "push", !.pList = pl, !.data = d] IN
         IF pl = NULL \/ n = NULL
         THEN /\ Goto(t, [f EXCEPT !.pc = "done"])
              /\ NoLock(t, f)
              /\ alloc' = alloc \cup (Nodes \ alloc)
              /\ UNCHANGED node
         ELSE /\ alloc' = alloc \cup {n}
              /\ node' = [node EXCEPT ![n] = [data |-> d, next |-> NULL, prev |-> NULL]]
              /\ Goto(t, [f EXCEPT !.pc = "lock", !.cur = n])
              /\ UNCHANGED histVars
    /\ UNCHANGED race
    /\ UNCHANGED <<listVars, lock, cblog, fault>>

\* list_push up to its lock: the NULL check, malloc and the Node's initialisation.
list_push(t, pl, d) ==
    /\ th[t].pc = "idle"
    /\ \E n \in MallocResults :
         LET f == IF pl = NULL THEN [IdleFrame EXCEPT !.op = "push"]
                  ELSE [IdleFrame EXCEPT !.op = "push", !.pList = pl, !.data = d] IN
         IF pl = NULL \/ n = NULL
         THEN /\ Goto(t, [f EXCEPT !.pc = "done"])
              /\ NoLock(t, f)
              /\ UNCHANGED heapVars
         ELSE /\ alloc' = alloc \cup {n}
              /\ node' = [node EXCEPT ![n] = [data |-> d, next |-> NULL, prev |-> NULL]]
              /\ Goto(t, [f EXCEPT !.pc = "lock", !.cur = n])
              /\ UNCHANGED histVars
    /\ UNCHANGED race
    /\ UNCHANGED <<listVars, lock, cblog, fault>>

list_push_lock(t) ==
    /\ At(t, "push", "lock")
    /\ Acquire(t)
    /\ Goto(t, [th[t] EXCEPT !.pc = "link"])
    /\ UNCHANGED race
    /\ UNCHANGED <<listVars, heapVars, cblog, fault>>
    /\ UNCHANGED scen

\* (a push that links its Node in front of start)
list_push_link_front(t) ==
    /\ At(t, "push", "link")
    /\ LET pNode == th[t].cur IN
       IF start # NULL
       THEN /\ node' = [node EXCEPT ![start].prev = pNode, ![pNode].next = start]
            /\ start' = pNode
            /\ UNCHANGED end
       ELSE /\ start' = pNode
            /\ end' = pNode
            /\ UNCHANGED node
    /\ count' = UAdd(count, 1)
    /\ Goto(t, [th[t] EXCEPT !.pc = "unlock", !.result = TRUE])
    /\ UNCHANGED <<alloc, lock, cblog, histVars, fault, scen>>
    /\ Touch(t)

\* (a push that forgets pList->count += 1)
list_push_link_nocount(t) ==
    /\ At(t, "push", "link")
    /\ LET pNode == th[t].cur IN
       IF end # NULL
       THEN /\ node' = [node EXCEPT ![end].next = pNode, ![pNode].prev = end]
            /\ end' = pNode
            /\ UNCHANGED start
       ELSE /\ start' = pNode
            /\ end' = pNode
            /\ UNCHANGED node
    /\ UNCHANGED count
    /\ Goto(t, [th[t] EXCEPT !.pc = "unlock", !.result = TRUE])
    /\ UNCHANGED <<alloc, lock, cblog, histVars, fault, scen>>
    /\ Touch(t)

list_push_link(t) ==
    /\ At(t, "push", "link")
    /\ LET pNode == th[t].cur IN
       IF end # NULL
       THEN /\ node' = [node EXCEPT ![end].next = pNode, ![pNode].prev = end]
            /\ end' = pNode
            /\ UNCHANGED start
       ELSE /\ start' = pNode
            /\ end' = pNode
            /\ UNCHANGED node
    /\ count' = UAdd(count, 1)
    /\ Goto(t, [th[t] EXCEPT !.pc = "unlock", !.result = TRUE])
    /\ UNCHANGED <<alloc, lock, cblog, histVars, fault>>
    /\ Touch(t)
    /\ UNCHANGED scen

list_push_unlock(t) ==
    /\ At(t, "push", "unlock")
    /\ Release(t)
    /\ UNCHANGED race
    /\ UNCHANGED <<listVars, heapVars, cblog, fault>>
    /\ UNCHANGED scen

(* ------------------------------- list_add ------------------------------ *)
\* (an add that hands list_push a NULL payload)
list_add_nodata(t, pl, d) == list_push(t, pl, NULL)

\* list_add returns list_push(pList, data): the call is list_push's from its
\* first statement on.
list_add(t, pl, d) == list_push(t, pl, d)

(* --------------------------- list_remove_node -------------------------- *)
\* list_remove_node's unlinking of pNode (the if/else over count, start and
\* end): start, end and the neighbours' links afterwards, and whether a NULL
\* neighbour was dereferenced on the way (segv).
UnlinkStalePrev(pNode) ==
    LET same == [segv |-> FALSE, start |-> start, end |-> end, node |-> node] IN
    IF USub(count, 1) = 0
    THEN [same EXCEPT !.start = NULL, !.end = NULL]
    ELSE IF start = pNode
    THEN IF node[start].next = NULL THEN [same EXCEPT !.segv = TRUE]
         ELSE [same EXCEPT !.start = node[start].next]
    ELSE IF end = pNode
    THEN IF node[end].prev = NULL THEN [same EXCEPT !.segv = TRUE]
         ELSE [same EXCEPT !.end = node[end].prev,
                           !.node = [node EXCEPT ![node[end].prev].next = NULL]]
    ELSE IF node[pNode].next = NULL \/ node[pNode].prev = NULL
         THEN [same EXCEPT !.segv = TRUE]
         ELSE [same EXCEPT !.node =
                  [node EXCEPT ![node[pNode].next].prev = node[pNode].prev,
                               ![node[pNode].prev].next = node[pNode].next]]

Unlink(pNode) ==
    LET same == [segv |-> FALSE, start |-> start, end |-> end, node |-> node] IN
    IF USub(count, 1) = 0
    THEN [same EXCEPT !.start = NULL, !.end = NULL]
    ELSE IF start = pNode
    THEN IF node[start].next = NULL THEN [same EXCEPT !.segv = TRUE]
         ELSE [same EXCEPT !.start = node[start].next,
                           !.node = [node EXCEPT ![node[start].next].prev = NULL]]
    ELSE IF end = pNode
    THEN IF node[end].prev = NULL THEN [same EXCEPT !.segv = TRUE]
         ELSE [same EXCEPT !.end = node[end].prev,
                           !.node = [node EXCEPT ![node[end].prev].next = NULL]]
    ELSE IF node[pNode].next = NULL \/ node[pNode].prev = NULL
         THEN [same EXCEPT !.segv = TRUE]
         ELSE [same EXCEPT !.node =
                  [node EXCEPT ![node[pNode].next].prev = node[pNode].prev,
                               ![node[pNode].prev].next = node[pNode].next]]

\* (a list_remove_node that takes pNode off the count twice)
list_remove_node_twice(pNode) ==
    LET same == [ok |-> FALSE, segv |-> FALSE, start |-> start, end |-> end,
                 count |-> count, node |-> node, alloc |-> alloc]
        u == Unlink(pNode)
    IN  IF pNode = NULL THEN same
        ELSE IF u.segv THEN [same EXCEPT !.segv = TRUE]
        ELSE [ok |-> TRUE, segv |-> FALSE, start |-> u.start, end |-> u.end,
              count |-> USub(USub(count, 1), 1),
              node |-> [u.node EXCEPT ![pNode] = ZeroNode],
              alloc |-> alloc \ {pNode}]

\* The heap and list after list_remove_node(pList, pNode), with its result
\* (ok) and whether it dereferenced NULL on the way (segv).  The freed Node's
\* contents leave the state.
list_remove_node(pNode) ==
    LET same == [ok |-> FALSE, segv |-> FALSE, start |-> start, end |-> end,
                 count |-> count, node |-> node, alloc |-> alloc]
        u == Unlink(pNode)
    IN  IF pNode = NULL THEN same
        ELSE IF u.segv THEN [same EXCEPT !.segv = TRUE]
        ELSE [ok |-> TRUE, segv |-> FALSE, start |-> u.start, end |-> u.end,
              count |-> USub(count, 1),
              node |-> [u.node EXCEPT ![pNode] = ZeroNode],
              alloc |-> alloc \ {pNode}]

\* The caller's step that contains the call: the list and heap become r's.
Removed(r) ==
    /\ start' = r.start
    /\ end' = r.end
    /\ count' = r.count
    /\ node' = r.node
    /\ alloc' = r.alloc
    /\ fault' = (fault \/ r.segv)

(* ----------------------------- list_destroy ---------------------------- *)
list_destroy(t, pl) ==
    /\ th[t].pc = "idle"
    /\ LET f == IF pl = NULL THEN [IdleFrame EXCEPT !.op = "destroy"]
                  ELSE [IdleFrame EXCEPT !.op = "destroy", !.pList = pl] IN
         IF pl = NULL
         THEN Goto(t, [f EXCEPT !.pc = "done"]) /\ NoLock(t, f)
         ELSE Goto(t, [f EXCEPT !.pc = "lock"]) /\ UNCHANGED histVars
    /\ UNCHANGED race
    /\ UNCHANGED <<listVars, heapVars, lock, cblog, fault>>

\* The lock and current_node = pList->start.
list_destroy_lock(t) ==
    /\ At(t, "destroy", "lock")
    /\ Acquire(t)
    /\ Goto(t, [th[t] EXCEPT !.pc = "walk", !.cur = start])
    /\ UNCHANGED <<listVars, heapVars, cblog, fault>>
    /\ Touch(t)
    /\ UNCHANGED scen

\* (a destroy that also resets pList->start and pList->end)
list_destroy_walk_reset(t) ==
    /\ At(t, "destroy", "walk")
    /\ LET c == th[t].cur IN
       IF c # NULL
       THEN /\ node' = [node EXCEPT ![c] = ZeroNode]
            /\ alloc' = alloc \ {c}
            /\ Goto(t, [th[t] EXCEPT !.cur = node[c].next])
            /\ UNCHANGED listVars
       ELSE /\ count' = 0
            /\ start' = NULL
            /\ end' = NULL
            /\ Goto(t, [th[t] EXCEPT !.pc = "unlock"])
            /\ UNCHANGED heapVars
    /\ UNCHANGED <<lock, cblog, histVars, fault>>
    /\ Touch(t)
    /\ UNCHANGED scen

\* (a destroy that frees current_node without stepping to the next one)
list_destroy_walk_first(t) ==
    /\ At(t, "destroy", "walk")
    /\ LET c == th[t].cur IN
       IF c # NULL /\ c \in alloc
       THEN /\ node' = [node EXCEPT ![c] = ZeroNode]
            /\ alloc' = alloc \ {c}
            /\ Goto(t, th[t])
            /\ UNCHANGED listVars
       ELSE /\ count' = 0
            /\ Goto(t, [th[t] EXCEPT !.pc = "unlock", !.cur = NULL])
            /\ UNCHANGED <<start, end, heapVars>>
    /\ UNCHANGED <<lock, cblog, histVars, fault>>
    /\ Touch(t)
    /\ UNCHANGED scen

\* One iteration of the loop that frees the Nodes, or its exit and
\* pList->count = 0; start and end are not assigned.
list_destroy_walk(t) ==
    /\ At(t, "destroy", "walk")
    /\ LET c == th[t].cur IN
       IF c # NULL
       THEN /\ node' = [node EXCEPT ![c] = ZeroNode]
            /\ alloc' = alloc \ {c}
            /\ Goto(t, [th[t] EXCEPT !.cur = node[c].next])
            /\ UNCHANGED listVars
       ELSE /\ count' = 0
            /\ Goto(t, [th[t] EXCEPT !.pc = "unlock"])
            /\ UNCHANGED <<start, end, heapVars>>
    /\ UNCHANGED <<lock, cblog, histVars, fault>>
    /\ Touch(t)
    /\ UNCHANGED scen

\* pthread_mutex_unlock; the call goes on.
list_destroy_unlock(t) ==
    /\ At(t, "destroy", "unlock")
    /\ lock' = 0
    /\ Goto(t, [th[t] EXCEPT !.pc = "mutex"])
    /\ exp' = [exp EXCEPT ![t] = NoExp]
    /\ UNCHANGED <<abs, pre>>
    /\ UNCHANGED race
    /\ UNCHANGED <<listVars, heapVars, cblog, fault>>
    /\ UNCHANGED scen

\* pthread_mutex_destroy.
list_destroy_mutex(t) ==
    /\ At(t, "destroy", "mutex")
    /\ lock' = Destroyed
    /\ Goto(t, [th[t] EXCEPT !.pc = "free"])
    /\ UNCHANGED race
    /\ UNCHANGED <<listVars, heapVars, cblog, histVars, fault>>
    /\ UNCHANGED scen

\* free(pList) and the return.
list_destroy_free(t) ==
    /\ At(t, "destroy", "free")
    /\ lock' = Freed
    /\ Goto(t, IdleFrame)
    /\ pre' = [pre EXCEPT ![t] = << >>]
    /\ UNCHANGED <<abs, exp>>
    /\ UNCHANGED race
    /\ UNCHANGED <<listVars, heapVars, cblog, fault>>
    /\ UNCHANGED scen

(* ------------------------------ list_count ----------------------------- *)
\* (a count that takes the lock of whatever it is given)
list_count_nocheck(t, pl) ==
    /\ th[t].pc = "idle"
    /\ Goto(t, [IdleFrame EXCEPT !.op = "count", !.pList = pl, !.pc = "lock"])
    /\ UNCHANGED histVars
    /\ UNCHANGED race
    /\ UNCHANGED <<listVars, heapVars, lock, cblog, fault>>

list_count(t, pl) ==
    /\ th[t].pc = "idle"
    /\ LET f == IF pl = NULL THEN [IdleFrame EXCEPT !.op = "count"]
                  ELSE [IdleFrame EXCEPT !.op = "count", !.pList = pl] IN
         IF pl = NULL
         THEN Goto(t, [f EXCEPT !.pc = "done"]) /\ NoLock(t, f)
         ELSE Goto(t, [f EXCEPT !.pc = "lock"]) /\ UNCHANGED histVars
    /\ UNCHANGED race
    /\ UNCHANGED <<listVars, heapVars, lock, cblog, fault>>

\* (a count that clears pList->count once it has read it)
list_count_lock_clear(t) ==
    /\ At(t, "count", "lock")
    /\ Acquire(t)
    /\ Goto(t, [th[t] EXCEPT !.pc = "unlock", !.cnt = count])
    /\ count' = 0
    /\ UNCHANGED <<start, end, heapVars, cblog, fault>>
    /\ Touch(t)
    /\ UNCHANGED scen

\* (a count that reports one more than pList->count)
list_count_lock_plus(t) ==
    /\ At(t, "count", "lock")
    /\ Acquire(t)
    /\ Goto(t, [th[t] EXCEPT !.pc = "unlock", !.cnt = UAdd(count, 1)])
    /\ UNCHANGED <<listVars, heapVars, cblog, fault>>
    /\ Touch(t)
    /\ UNCHANGED scen

list_count_lock(t) ==
    /\ At(t, "count", "lock")
    /\ Acquire(t)
    /\ Goto(t, [th[t] EXCEPT !.pc = "unlock", !.cnt = count])
    /\ UNCHANGED <<listVars, heapVars, cblog, fault>>
    /\ Touch(t)
    /\ UNCHANGED scen

list_count_unlock(t) ==
    /\ At(t, "count", "unlock")
    /\ Release(t)
    /\ UNCHANGED race
    /\ UNCHANGED <<listVars, heapVars, cblog, fault>>
    /\ Noted(t)

(* ------------------------------- list_get ------------------------------ *)
list_get(t, pl, i) ==
    /\ th[t].pc = "idle"
    /\ LET f == IF pl = NULL THEN [IdleFrame EXCEPT !.op = "get"]
                  ELSE [IdleFrame EXCEPT !.op = "get", !.pList = pl, !.index = i, !.i0 = i] IN
         IF pl = NULL
         THEN Goto(t, [f EXCEPT !.pc = "done"]) /\ NoLock(t, f)
         ELSE Goto(t, [f EXCEPT !.pc = "lock"]) /\ UNCHANGED histVars
    /\ UNCHANGED race
    /\ UNCHANGED <<listVars, heapVars, lock, cblog, fault>>

\* (a get whose early return forgets pthread_mutex_unlock)
list_get_lock_leak(t) ==
    /\ At(t, "get", "lock")
    /\ Acquire(t)
    /\ IF count <= th[t].index
       THEN Goto(t, IdleFrame)
       ELSE Goto(t, [th[t] EXCEPT !.pc = "walk", !.cur = start])
    /\ UNCHANGED <<listVars, heapVars, cblog, fault>>
    /\ Touch(t)
    /\ UNCHANGED scen

\* The lock, the range check and current_node = pList->start.
list_get_lock(t) ==
    /\ At(t, "get", "lock")
    /\ Acquire(t)
    /\ IF count <= th[t].index
       THEN Goto(t, [th[t] EXCEPT !.pc = "unlock"])
       ELSE Goto(t, [th[t] EXCEPT !.pc = "walk", !.cur = start])
    /\ UNCHANGED <<listVars, heapVars, cblog, fault>>
    /\ Touch(t)
    /\ UNCHANGED scen

\* (a walk that forgets index--)
list_get_walk_nodec(t) ==
    /\ At(t, "get", "walk")
    /\ LET f == th[t] IN
       IF f.cur # NULL /\ f.index # 0
       THEN Goto(t, [f EXCEPT !.cur = node[f.cur].next])
       ELSE Goto(t, [f EXCEPT !.pc = "unlock",
                              !.data = IF f.cur # NULL THEN node[f.cur].data ELSE NULL])
    /\ UNCHANGED <<listVars, heapVars, lock, cblog, histVars, fault, scen>>
    /\ Touch(t)

\* One iteration of the while loop, or its exit and the read of the payload.
list_get_walk(t) ==
    /\ At(t, "get", "walk")
    /\ LET f == th[t] IN
       IF f.cur # NULL /\ f.index # 0
       THEN Goto(t, [f EXCEPT !.cur = node[f.cur].next, !.index = f.index - 1])
       ELSE Goto(t, [f EXCEPT !.pc = "unlock",
                              !.data = IF f.cur # NULL THEN node[f.cur].data ELSE NULL])
    /\ UNCHANGED <<listVars, heapVars, lock, cblog, histVars, fault>>
    /\ Touch(t)
    /\ UNCHANGED scen

list_get_unlock(t) ==
    /\ At(t, "get", "unlock")
    /\ Release(t)
    /\ UNCHANGED race
    /\ UNCHANGED <<listVars, heapVars, cblog, fault>>
    /\ UNCHANGED scen

(* ------------------------------ list_remove ---------------------------- *)
list_remove(t, pl, d) ==
    /\ th[t].pc = "idle"
    /\ LET f == IF pl = NULL THEN [IdleFrame EXCEPT !.op = "remove"]
                  ELSE [IdleFrame EXCEPT !.op = "remove", !.pList = pl, !.data = d] IN
         IF pl = NULL \/ d = NULL
         THEN Goto(t, [f EXCEPT !.pc = "done"]) /\ NoLock(t, f)
         ELSE Goto(t, [f EXCEPT !.pc = "lock"]) /\ UNCHANGED histVars
    /\ UNCHANGED race
    /\ UNCHANGED <<listVars, heapVars, lock, cblog, fault>>

\* The lock and current_node = pList->start.
list_remove_lock(t) ==
    /\ At(t, "remove", "lock")
    /\ Acquire(t)
    /\ Goto(t, [th[t] EXCEPT !.pc = "walk", !.cur = start])
    /\ UNCHANGED <<listVars, heapVars, cblog, fault>>
    /\ Touch(t)
    /\ UNCHANGED scen

\* (a search loop whose comparison is inverted)
list_remove_walk_inverted(t) ==
    /\ At(t, "remove", "walk")
    /\ LET f == th[t]
           r == list_remove_node(f.cur)
       IN  IF f.cur # NULL /\ node[f.cur].data = f.data
           THEN /\ Goto(t, [f EXCEPT !.cur = node[f.cur].next])
                /\ UNCHANGED <<listVars, heapVars, fault>>
           ELSE /\ Goto(t, [f EXCEPT !.pc = IF r.segv THEN "segv" ELSE "unlock",
                                     !.cur = NULL, !.result = r.ok])
                /\ Removed(r)
    /\ UNCHANGED <<lock, cblog, histVars, scen>>
    /\ Touch(t)

\* One iteration of the search loop, or its exit and the call of list_remove_node.
list_remove_walk(t) ==
    /\ At(t, "remove", "walk")
    /\ LET f == th[t]
           r == list_remove_node(f.cur)
       IN  IF f.cur # NULL /\ node[f.cur].data # f.data
           THEN /\ Goto(t, [f EXCEPT !.cur = node[f.cur].next])
                /\ UNCHANGED <<listVars, heapVars, fault>>
           ELSE /\ Goto(t, [f EXCEPT !.pc = IF r.segv THEN "segv" ELSE "unlock",
                                     !.cur = NULL, !.result = r.ok])
                /\ Removed(r)
    /\ UNCHANGED <<lock, cblog, histVars>>
    /\ Touch(t)
    /\ Tallied(th'[t].pc = "unlock" /\ th'[t].result)

list_remove_unlock(t) ==
    /\ At(t, "remove", "unlock")
    /\ Release(t)
    /\ UNCHANGED race
    /\ UNCHANGED <<listVars, heapVars, cblog, fault>>
    /\ UNCHANGED scen

(* ------------------------------ list_delete ---------------------------- *)
list_delete(t, pl, i) ==
    /\ th[t].pc = "idle"
    /\ LET f == IF pl = NULL THEN [IdleFrame EXCEPT !.op = "delete"]
                  ELSE [IdleFrame EXCEPT !.op = "delete", !.pList = pl, !.index = i, !.i0 = i] IN
         IF pl = NULL
         THEN Goto(t, [f EXCEPT !.pc = "done"]) /\ NoLock(t, f)
         ELSE Goto(t, [f EXCEPT !.pc = "lock"]) /\ UNCHANGED histVars
    /\ UNCHANGED race
    /\ UNCHANGED <<listVars, heapVars, lock, cblog, fault>>

\* The lock, the range check and current_node = pList->start.
list_delete_lock(t) ==
    /\ At(t, "delete", "lock")
    /\ Acquire(t)
    /\ IF count > th[t].index
       THEN Goto(t, [th[t] EXCEPT !.pc = "walk", !.cur = start])
       ELSE Goto(t, [th[t] EXCEPT !.pc = "unlock"])
    /\ UNCHANGED <<listVars, heapVars, cblog, fault>>
    /\ Touch(t)
    /\ UNCHANGED scen

\* (a removal that passes pList->start instead of current_node)
list_delete_walk_head(t) ==
    /\ At(t, "delete", "walk")
    /\ LET f == th[t]
           r == list_remove_node(start)
       IN  IF f.cur = NULL
           THEN /\ Goto(t, [f EXCEPT !.pc = "unlock"])
                /\ UNCHANGED <<listVars, heapVars, fault>>
           ELSE IF f.index = 0
           THEN /\ Goto(t, [f EXCEPT !.pc = IF r.segv THEN "segv" ELSE "unlock",
                                     !.cur = NULL, !.result = r.ok])
                /\ Removed(r)
           ELSE /\ Goto(t, [f EXCEPT !.cur = node[f.cur].next, !.index = f.index - 1])
                /\ UNCHANGED <<listVars, heapVars, fault>>
    /\ UNCHANGED <<lock, cblog, histVars, scen>>
    /\ Touch(t)

\* One iteration of the while loop: the removal at index 0, a hop, or the exit.
list_delete_walk(t) ==
    /\ At(t, "delete", "walk")
    /\ LET f == th[t]
           r == list_remove_node(f.cur)
       IN  IF f.cur = NULL
           THEN /\ Goto(t, [f EXCEPT !.pc = "unlock"])
                /\ UNCHANGED <<listVars, heapVars, fault>>
           ELSE IF f.index = 0
           THEN /\ Goto(t, [f EXCEPT !.pc = IF r.segv THEN "segv" ELSE "unlock",
                                     !.cur = NULL, !.result = r.ok])
                /\ Removed(r)
           ELSE /\ Goto(t, [f EXCEPT !.cur = node[f.cur].next, !.index = f.index - 1])
                /\ UNCHANGED <<listVars, heapVars, fault>>
    /\ UNCHANGED <<lock, cblog, histVars>>
    /\ Touch(t)
    /\ Tallied(th'[t].pc = "unlock" /\ th'[t].result)

list_delete_unlock(t) ==
    /\ At(t, "delete", "unlock")
    /\ Release(t)
    /\ UNCHANGED race
    /\ UNCHANGED <<listVars, heapVars, cblog, fault>>
    /\ UNCHANGED scen

(* ------------------------------- list_pop ------------------------------ *)
list_pop(t, pl) ==
    /\ th[t].pc = "idle"
    /\ LET f == IF pl = NULL THEN [IdleFrame EXCEPT !.op = "pop"]
                  ELSE [IdleFrame EXCEPT !.op = "pop", !.pList = pl] IN
         IF pl = NULL
         THEN Goto(t, [f EXCEPT !.pc = "done"]) /\ NoLock(t, f)
         ELSE Goto(t, [f EXCEPT !.pc = "lock"]) /\ UNCHANGED histVars
    /\ UNCHANGED race
    /\ UNCHANGED <<listVars, heapVars, lock, cblog, fault>>

\* (a pop that takes pList->start)
list_pop_lock_head(t) ==
    /\ At(t, "pop", "lock")
    /\ Acquire(t)
    /\ LET r == list_remove_node(start) IN
       IF start # NULL
       THEN /\ Goto(t, [th[t] EXCEPT !.pc = IF r.segv THEN "segv" ELSE "unlock",
                                     !.data = node[start].data])
            /\ Removed(r)
       ELSE /\ Goto(t, [th[t] EXCEPT !.pc = "unlock"])
            /\ UNCHANGED <<listVars, heapVars, fault>>
    /\ UNCHANGED <<cblog, scen>>
    /\ Touch(t)

\* The lock and the body: the payload of pList->end and its removal.
list_pop_lock(t) ==
    /\ At(t, "pop", "lock")
    /\ Acquire(t)
    /\ LET r == list_remove_node(end) IN
       IF end # NULL
       THEN /\ Goto(t, [th[t] EXCEPT !.pc = IF r.segv THEN "segv" ELSE "unlock",
                                     !.data = node[end].data])
            /\ Removed(r)
       ELSE /\ Goto(t, [th[t] EXCEPT !.pc = "unlock"])
            /\ UNCHANGED <<listVars, heapVars, fault>>
    /\ UNCHANGED cblog
    /\ Touch(t)
    /\ Tallied(ChainNodes # << >>)

list_pop_unlock(t) ==
    /\ At(t, "pop", "unlock")
    /\ Release(t)
    /\ UNCHANGED race
    /\ UNCHANGED <<listVars, heapVars, cblog, fault>>
    /\ UNCHANGED scen

(* ------------------------------ list_shift ----------------------------- *)
list_shift(t, pl) ==
    /\ th[t].pc = "idle"
    /\ LET f == IF pl = NULL THEN [IdleFrame EXCEPT !.op = "shift"]
                  ELSE [IdleFrame EXCEPT !.op = "shift", !.pList = pl] IN
         IF pl = NULL
         THEN Goto(t, [f EXCEPT !.pc = "done"]) /\ NoLock(t, f)
         ELSE Goto(t, [f EXCEPT !.pc = "lock"]) /\ UNCHANGED histVars
    /\ UNCHANGED race
    /\ UNCHANGED <<listVars, heapVars, lock, cblog, fault>>

\* (a shift that takes pList->end)
list_shift_lock_tail(t) ==
    /\ At(t, "shift", "lock")
    /\ Acquire(t)
    /\ LET r == list_remove_node(end) IN
       IF end # NULL
       THEN /\ Goto(t, [th[t] EXCEPT !.pc = IF r.segv THEN "segv" ELSE "unlock",
                                     !.data = node[end].data])
            /\ Removed(r)
       ELSE /\ Goto(t, [th[t] EXCEPT !.pc = "unlock"])
            /\ UNCHANGED <<listVars, heapVars, fault>>
    /\ UNCHANGED <<cblog, scen>>
    /\ Touch(t)

\* The lock and the body: the payload of pList->start and its removal.
list_shift_lock(t) ==
    /\ At(t, "shift", "lock")
    /\ Acquire(t)
    /\ LET r == list_remove_node(start) IN
       IF start # NULL
       THEN /\ Goto(t, [th[t] EXCEPT !.pc = IF r.segv THEN "segv" ELSE "unlock",
                                     !.data = node[start].data])
            /\ Removed(r)
       ELSE /\ Goto(t, [th[t] EXCEPT !.pc = "unlock"])
            /\ UNCHANGED <<listVars, heapVars, fault>>
    /\ UNCHANGED cblog
    /\ Touch(t)
    /\ Tallied(ChainNodes # << >>)

list_shift_unlock(t) ==
    /\ At(t, "shift", "unlock")
    /\ Release(t)
    /\ UNCHANGED race
    /\ UNCHANGED <<listVars, heapVars, cblog, fault>>
    /\ UNCHANGED scen

(* ---------------------------- list_enumerate --------------------------- *)
\* The logical OR of the callback results logged in l.
AnyTrue(l) == \E i \in 1..Len(l) : l[i][2]
Payloads(l) == [i \in 1..Len(l) |-> l[i][1]]

list_enumerate(t, pl, c) ==
    /\ th[t].pc = "idle"
    /\ LET f == IF pl = NULL THEN [IdleFrame EXCEPT !.op = "enumerate"]
                  ELSE [IdleFrame EXCEPT !.op = "enumerate", !.pList = pl, !.cb = c] IN
         IF pl = NULL \/ ~c
         THEN Goto(t, [f EXCEPT !.pc = "done"]) /\ NoLock(t, f)
         ELSE Goto(t, [f EXCEPT !.pc = "lock"]) /\ UNCHANGED histVars
    /\ UNCHANGED race
    /\ UNCHANGED <<listVars, heapVars, lock, cblog, fault>>

\* The lock, pCurrent = pList->start and bResult = false.
list_enumerate_lock(t) ==
    /\ At(t, "enumerate", "lock")
    /\ Acquire(t)
    /\ Goto(t, [th[t] EXCEPT !.pc = "walk", !.cur = start, !.result = FALSE])
    /\ UNCHANGED <<listVars, heapVars, cblog, fault>>
    /\ Touch(t)
    /\ UNCHANGED scen

\* (bResult || pCallback(...): the callback is skipped once bResult is true)
list_enumerate_walk_shortcut(t) ==
    /\ At(t, "enumerate", "walk")
    /\ LET f == th[t] IN
       IF f.cur # NULL /\ f.result
       THEN /\ Goto(t, [f EXCEPT !.cur = node[f.cur].next])
            /\ UNCHANGED cblog
       ELSE IF f.cur # NULL
       THEN \E r \in BOOLEAN :
              /\ cblog' = [cblog EXCEPT ![t] = Append(@, <<node[f.cur].data, r>>)]
              /\ Goto(t, [f EXCEPT !.result = (r \/ f.result), !.cur = node[f.cur].next])
       ELSE /\ Goto(t, [f EXCEPT !.pc = "unlock"])
            /\ UNCHANGED cblog
    /\ UNCHANGED <<listVars, heapVars, lock, histVars, fault, scen>>
    /\ Touch(t)

\* One iteration of the while loop: the callback is invoked on the payload
\* and answers either way; or the exit of the loop.
list_enumerate_walk(t) ==
    /\ At(t, "enumerate", "walk")
    /\ LET f == th[t] IN
       IF f.cur # NULL
       THEN \E r \in BOOLEAN :
              /\ cblog' = [cblog EXCEPT ![t] = Append(@, <<node[f.cur].data, r>>)]
              /\ Goto(t, [f EXCEPT !.result = (r \/ f.result), !.cur = node[f.cur].next])
       ELSE /\ Goto(t, [f EXCEPT !.pc = "unlock"])
            /\ UNCHANGED cblog
    /\ UNCHANGED <<listVars, heapVars, lock, histVars, fault>>
    /\ Touch(t)
    /\ UNCHANGED scen

list_enumerate_unlock(t) ==
    /\ At(t, "enumerate", "unlock")
    /\ Release(t)
    /\ cblog' = [cblog EXCEPT ![t] = << >>]
    /\ UNCHANGED race
    /\ UNCHANGED <<listVars, heapVars, fault>>
    /\ UNCHANGED scen

(* --------------------------- the caller -------------------------------- *)
\* The arguments of a call on no list are never looked at, so the frame of such
\* a call does not record them.
\* A call that never took the lock returns: the frame is gone.
Return(t) ==
    /\ th[t].pc = "done"
    /\ Goto(t, IdleFrame)
    /\ exp' = [exp EXCEPT ![t] = NoExp]
    /\ pre' = [pre EXCEPT ![t] = << >>]
    /\ UNCHANGED <<listVars, heapVars, lock, abs, cblog, race, fault>>
    /\ UNCHANGED scen

(* ------------------------ use of freed memory -------------------------- *)
\* The Nodes list_remove_node(pList, pNode) dereferences: pNode and, where the
\* branch relinks them, its neighbours.
RemoveRefs(pNode) ==
    IF pNode = NULL THEN {}
    ELSE {pNode} \cup
         (IF USub(count, 1) = 0 THEN {}
          ELSE IF start = pNode THEN {node[pNode].next}
          ELSE IF end = pNode THEN {node[pNode].prev}
          ELSE {node[pNode].next, node[pNode].prev})

\* The Nodes the next step of thread t dereferences.
NodeRefs(t) ==
    LET f == th[t] IN
    CASE f.op = "push" /\ f.pc = "link" -> IF end # NULL THEN {end, f.cur} ELSE {}
      [] f.op \in {"get", "enumerate", "destroy"} /\ f.pc = "walk" -> {f.cur}
      [] f.op = "remove" /\ f.pc = "walk" ->
           IF f.cur # NULL /\ node[f.cur].data # f.data THEN {f.cur}
           ELSE RemoveRefs(f.cur)
      [] f.op = "delete" /\ f.pc = "walk" ->
           IF f.cur # NULL /\ f.index # 0 THEN {f.cur} ELSE RemoveRefs(f.cur)
      [] f.op = "pop" /\ f.pc = "lock" -> RemoveRefs(end)
      [] f.op = "shift" /\ f.pc = "lock" -> RemoveRefs(start)
      [] OTHER -> {}

\* The next step of thread t reads or writes a field of *pList.
StructRef(t) ==
    LET f == th[t] IN
    \/ f.pc \in {"lock", "link", "unlock", "mutex", "free"}
    \/ f.pc = "walk" /\ f.op = "destroy" /\ f.cur = NULL
    \/ f.pc = "walk" /\ f.op = "remove" /\ f.cur # NULL /\ node[f.cur].data = f.data
    \/ f.pc = "walk" /\ f.op = "delete" /\ f.cur # NULL /\ f.index = 0

\* The next step of thread t is undefined: it uses *pList after free(pList),
\* the mutex after pthread_mutex_destroy, destroys a mutex that is locked,
\* unlocks one it does not hold, or dereferences a Node that is freed.
Dangling(t) ==
    \/ StructRef(t) /\ lock = Freed
    \/ th[t].pc \in {"lock", "unlock", "mutex"} /\ lock = Destroyed
    \/ th[t].pc = "mutex" /\ lock # 0
    \/ th[t].pc \in {"unlock", "link", "walk"} /\ lock # t
    \/ (NodeRefs(t) \ {NULL}) \ alloc # {}

\* The undefined step: nothing is known of the thread or the memory after it.
UseAfterFree(t) ==
    /\ Dangling(t)
    /\ Goto(t, [th[t] EXCEPT !.pc = "segv"])
    /\ fault' = TRUE
    /\ UNCHANGED <<listVars, heapVars, lock, cblog, histVars, race, scen>>

(* --------------------------- specification ----------------------------- *)
\* Outside the scenario specifications the callers follow no script; they call
\* list_destroy on no list only, the list staying live.
\* phase: the script; ins: the payloads pushed so far; ndrain: the pops or
\* shifts called so far; npush: the pushes each thread has called so far.
\* ncall: the calls each thread has made so far; nins, nrem: the insertions
\* and the removals that succeeded so far; nfail: the insertions whose
\* allocation failed so far; via: the payload of the list_add call a thread is
\* in, as <<data>>; n, snap: the value the scripted list_count returned and
\* the chain's payloads then.
NoScen == [phase |-> "free", ins |-> << >>, ndrain |-> 0,
           npush |-> [t \in Threads |-> 0],
           ncall |-> [t \in Threads |-> 0], nins |-> 0, nrem |-> 0, nfail |-> 0,
           via |-> [t \in Threads |-> << >>], n |-> 0, snap |-> << >>]

\* The state list_create leaves, with no call in progress.
list_create ==
    /\ start = NULL
    /\ end = NULL
    /\ count = 0
    /\ lock = 0
    /\ node = [n \in Nodes |-> ZeroNode]
    /\ alloc = {}
    /\ th = [t \in Threads |-> IdleFrame]
    /\ cblog = [t \in Threads |-> << >>]
    /\ abs = << >>
    /\ exp = [t \in Threads |-> NoExp]
    /\ pre = [t \in Threads |-> << >>]
    /\ race = FALSE
    /\ fault = FALSE

Init == list_create /\ scen = NoScen

\* Callers insert only while fewer than MaxLen Nodes are allocated.
MayInsert == Cardinality(alloc) < MaxLen

Next ==
    \E t \in Threads :
        \/ \E pl \in {NULL} : list_destroy(t, pl) /\ UNCHANGED scen
        \/ \E pl \in PLists, d \in Data : MayInsert /\ list_push(t, pl, d) /\ UNCHANGED scen
        \/ list_push_lock(t)
        \/ list_push_link(t)
        \/ list_push_unlock(t)
        \/ \E pl \in PLists, d \in Data : MayInsert /\ list_add(t, pl, d) /\ UNCHANGED scen
        \/ \E pl \in PLists : list_count(t, pl) /\ UNCHANGED scen
        \/ list_count_lock(t)
        \/ list_count_unlock(t)
        \/ \E pl \in PLists, i \in Indexes : list_get(t, pl, i) /\ UNCHANGED scen
        \/ list_get_lock(t)
        \/ list_get_walk(t)
        \/ list_get_unlock(t)
        \/ \E pl \in PLists, d \in Data : list_remove(t, pl, d) /\ UNCHANGED scen
        \/ list_remove_lock(t)
        \/ list_remove_walk(t)
        \/ list_remove_unlock(t)
        \/ \E pl \in PLists, i \in Indexes : list_delete(t, pl, i) /\ UNCHANGED scen
        \/ list_delete_lock(t)
        \/ list_delete_walk(t)
        \/ list_delete_unlock(t)
        \/ \E pl \in PLists : list_pop(t, pl) /\ UNCHANGED scen
        \/ list_pop_lock(t)
        \/ list_pop_unlock(t)
        \/ \E pl \in PLists : list_shift(t, pl) /\ UNCHANGED scen
        \/ list_shift_lock(t)
        \/ list_shift_unlock(t)
        \/ \E pl \in PLists, c \in BOOLEAN : list_enumerate(t, pl, c) /\ UNCHANGED scen
        \/ list_enumerate_lock(t)
        \/ list_enumerate_walk(t)
        \/ list_enumerate_unlock(t)
        \/ Return(t)

Spec == Init /\ [][Next]_vars

(* ------------------- scenario: concurrent pushes ---------------------- *)
\* Every thread pushes MPush payloads of its own, in increasing order; no
\* allocation fails.
PayloadOf(t, k) == (t - 1) * MPush + k
OwnerOf(d) == ((d - 1) \div MPush) + 1

PusherCall(t) ==
    /\ scen.npush[t] < MPush
    /\ list_push(t, TheList, PayloadOf(t, scen.npush[t] + 1))
    /\ th'[t].pc = "lock"
    /\ scen' = [scen EXCEPT !.npush[t] = @ + 1]

InitPushers == list_create /\ scen = [NoScen EXCEPT !.phase = "pushers"]

NextPushers ==
    \E t \in Threads :
        \/ PusherCall(t)
        \/ list_push_lock(t)
        \/ list_push_link(t)
        \/ list_push_unlock(t)

SpecPushers == InitPushers /\ [][NextPushers]_vars

(* ------------------- scenario: fill, then drain ------------------------ *)
\* One thread pushes up to MaxLen payloads, none failing, and then calls pop
\* (or shift) as many times.
Filler == Min(Threads)

DrainPush(t, d) ==
    /\ scen.phase = "fill"
    /\ Len(scen.ins) < MaxLen
    /\ list_push(t, TheList, d)
    /\ th'[t].pc = "lock"
    /\ scen' = [scen EXCEPT !.ins = Append(@, d)]

DrainPop(t) ==
    /\ scen.phase \in {"fill", "pop"}
    /\ scen.ndrain < Len(scen.ins)
    /\ list_pop(t, TheList)
    /\ scen' = [scen EXCEPT !.phase = "pop", !.ndrain = @ + 1]

DrainShift(t) ==
    /\ scen.phase \in {"fill", "shift"}
    /\ scen.ndrain < Len(scen.ins)
    /\ list_shift(t, TheList)
    /\ scen' = [scen EXCEPT !.phase = "shift", !.ndrain = @ + 1]

InitDrain == list_create /\ scen = [NoScen EXCEPT !.phase = "fill"]

NextDrain ==
    \E t \in {Filler} :
        \/ \E d \in Data : DrainPush(t, d)
        \/ DrainPop(t)
        \/ DrainShift(t)
        \/ list_push_lock(t)
        \/ list_push_link(t)
        \/ list_push_unlock(t)
        \/ list_pop_lock(t)
        \/ list_pop_unlock(t)
        \/ list_shift_lock(t)
        \/ list_shift_unlock(t)

SpecDrain == InitDrain /\ [][NextDrain]_vars

(* ------------------- scenario: tallied calls --------------------------- *)
\* Every thread makes up to MaxCalls inserting or removing calls on the list,
\* any of whose allocations may fail.  An insertion is tallied where the call
\* is certain to return true (its Node is allocated), a removal where it
\* succeeds.
MaxCalls == 2

MayCall(t) == scen.phase = "tally" /\ scen.ncall[t] < MaxCalls

Counted(t, viaAdd) ==
    scen' = [scen EXCEPT !.ncall[t] = @ + 1,
                         !.nins = IF th'[t].pc = "lock" THEN @ + 1 ELSE @,
                         !.nfail = IF th'[t].pc = "done" THEN @ + 1 ELSE @,
                         !.via[t] = viaAdd]

Uncounted(t) == scen' = [scen EXCEPT !.ncall[t] = @ + 1, !.via[t] = << >>]

TallyPush(t, d) ==
    MayCall(t) /\ list_push(t, TheList, d) /\ Counted(t, << >>)
TallyAdd(t, d) ==
    MayCall(t) /\ list_add(t, TheList, d) /\ Counted(t, <<d>>)
TallyRemove(t, d) ==
    MayCall(t) /\ list_remove(t, TheList, d) /\ Uncounted(t)
TallyDelete(t, i) ==
    MayCall(t) /\ list_delete(t, TheList, i) /\ Uncounted(t)
TallyPop(t) ==
    MayCall(t) /\ list_pop(t, TheList) /\ Uncounted(t)
TallyShift(t) ==
    MayCall(t) /\ list_shift(t, TheList) /\ Uncounted(t)

InitTally == list_create /\ scen = [NoScen EXCEPT !.phase = "tally"]

NextTally ==
    \E t \in Threads :
        \/ \E d \in Data : TallyPush(t, d)
        \/ \E d \in Data : TallyAdd(t, d)
        \/ \E d \in Data : TallyRemove(t, d)
        \/ \E i \in Indexes : TallyDelete(t, i)
        \/ TallyPop(t)
        \/ TallyShift(t)
        \/ list_push_lock(t)
        \/ list_push_link(t)
        \/ list_push_unlock(t)
        \/ list_remove_lock(t)
        \/ list_remove_walk(t)
        \/ list_remove_unlock(t)
        \/ list_delete_lock(t)
        \/ list_delete_walk(t)
        \/ list_delete_unlock(t)
        \/ list_pop_lock(t)
        \/ list_pop_unlock(t)
        \/ list_shift_lock(t)
        \/ list_shift_unlock(t)
        \/ Return(t)

SpecTally == InitTally /\ [][NextTally]_vars

(* ------------------- scenario: a list's whole life --------------------- *)
\* The tallied calls, and then, with no call in progress, one list_destroy;
\* nothing is called on the list during or after it.
LifeDestroy(t) ==
    /\ scen.phase = "tally"
    /\ Quiescent
    /\ list_destroy(t, TheList)
    /\ scen' = [scen EXCEPT !.phase = "destroy"]

NextLife ==
    \E t \in Threads :
        \/ \E d \in Data : TallyPush(t, d)
        \/ \E d \in Data : TallyAdd(t, d)
        \/ \E d \in Data : TallyRemove(t, d)
        \/ \E i \in Indexes : TallyDelete(t, i)
        \/ TallyPop(t)
        \/ TallyShift(t)
        \/ list_push_lock(t)
        \/ list_push_link(t)
        \/ list_push_unlock(t)
        \/ list_remove_lock(t)
        \/ list_remove_walk(t)
        \/ list_remove_unlock(t)
        \/ list_delete_lock(t)
        \/ list_delete_walk(t)
        \/ list_delete_unlock(t)
        \/ list_pop_lock(t)
        \/ list_pop_unlock(t)
        \/ list_shift_lock(t)
        \/ list_shift_unlock(t)
        \/ Return(t)
        \/ LifeDestroy(t)
        \/ list_destroy_lock(t)
        \/ list_destroy_walk(t)
        \/ list_destroy_unlock(t)
        \/ list_destroy_mutex(t)
        \/ list_destroy_free(t)

SpecLife == InitTally /\ [][NextLife]_vars

(* ------------------- scheduling: a fair lock --------------------------- *)
\* Thread t takes the lock, in whatever call it is.
LockStep(t) ==
    \/ list_push_lock(t)
    \/ list_count_lock(t)
    \/ list_get_lock(t)
    \/ list_remove_lock(t)
    \/ list_delete_lock(t)
    \/ list_pop_lock(t)
    \/ list_shift_lock(t)
    \/ list_enumerate_lock(t)

\* Thread t takes a step of its call that waits for nothing.
RunStep(t) ==
    \/ list_push_link(t)
    \/ list_push_unlock(t)
    \/ list_count_unlock(t)
    \/ list_get_walk(t)
    \/ list_get_unlock(t)
    \/ list_remove_walk(t)
    \/ list_remove_unlock(t)
    \/ list_delete_walk(t)
    \/ list_delete_unlock(t)
    \/ list_pop_unlock(t)
    \/ list_shift_unlock(t)
    \/ list_enumerate_walk(t)
    \/ list_enumerate_unlock(t)
    \/ Return(t)

\* A thread inside a call keeps running, the callback of enumerate returns,
\* and the mutex is fair: a thread that finds it free again and again gets it.
\* (Each of these steps moves its thread, so th is subscript enough.)
Fairness ==
    \A t \in Threads : WF_th(RunStep(t)) /\ SF_th(LockStep(t))

\* The callers call on the list, with one payload, whenever they please.
NextFair ==
    \E t \in Threads :
        \/ \E d \in {MaxData} : MayInsert /\ list_push(t, TheList, d) /\ UNCHANGED scen
        \/ list_push_lock(t)
        \/ list_push_link(t)
        \/ list_push_unlock(t)
        \/ list_count(t, TheList) /\ UNCHANGED scen
        \/ list_count_lock(t)
        \/ list_count_unlock(t)
        \/ \E i \in Indexes : list_get(t, TheList, i) /\ UNCHANGED scen
        \/ list_get_lock(t)
        \/ list_get_walk(t)
        \/ list_get_unlock(t)
        \/ \E d \in {NULL, MaxData} : list_remove(t, TheList, d) /\ UNCHANGED scen
        \/ list_remove_lock(t)
        \/ list_remove_walk(t)
        \/ list_remove_unlock(t)
        \/ \E i \in Indexes : list_delete(t, TheList, i) /\ UNCHANGED scen
        \/ list_delete_lock(t)
        \/ list_delete_walk(t)
        \/ list_delete_unlock(t)
        \/ list_pop(t, TheList) /\ UNCHANGED scen
        \/ list_pop_lock(t)
        \/ list_pop_unlock(t)
        \/ list_shift(t, TheList) /\ UNCHANGED scen
        \/ list_shift_lock(t)
        \/ list_shift_unlock(t)
        \/ list_enumerate(t, TheList, TRUE) /\ UNCHANGED scen
        \/ list_enumerate_lock(t)
        \/ list_enumerate_walk(t)
        \/ list_enumerate_unlock(t)
        \/ Return(t)

SpecFair == Init /\ [][NextFair]_vars /\ Fairness

(* ------------------- a callback that calls the list -------------------- *)
\* The frames of the calls on the list that have reached pthread_mutex_lock:
\* every function but list_destroy, past its checks (and list_push past its
\* malloc, with the Node n).
LockingCalls(n) ==
    {[IdleFrame EXCEPT !.op = o, !.pList = TheList, !.pc = "lock"] :
        o \in {"count", "pop", "shift"}}
    \cup {[IdleFrame EXCEPT !.op = o, !.pList = TheList, !.pc = "lock",
                            !.index = i, !.i0 = i] :
             o \in {"get", "delete"}, i \in Indexes}
    \cup {[IdleFrame EXCEPT !.op = "remove", !.pList = TheList, !.pc = "lock",
                            !.data = d] : d \in Data \ {NULL}}
    \cup {[IdleFrame EXCEPT !.op = "enumerate", !.pList = TheList, !.pc = "lock",
                            !.cb = TRUE]}
    \cup {[IdleFrame EXCEPT !.op = "push", !.pList = TheList, !.pc = "lock",
                            !.data = d, !.cur = n] :
             d \in (IF n = NULL THEN {} ELSE Data)}

\* pCallback(pState, pCurrent->data) where the callback calls a function on
\* the list being enumerated: the thread is in the nested call f, arrived at
\* its pthread_mutex_lock, and the enumerate that awaits it is kept in outer.
list_enumerate_callback(t, f) ==
    /\ At(t, "enumerate", "walk")
    /\ th[t].cur # NULL
    /\ th[t].outer = << >>
    /\ Goto(t, [f EXCEPT !.outer = <<th[t]>>])
    /\ IF f.op = "push"
       THEN /\ alloc' = alloc \cup {f.cur}
            /\ node' = [node EXCEPT ![f.cur] = [data |-> f.data, next |-> NULL, prev |-> NULL]]
       ELSE UNCHANGED heapVars
    /\ UNCHANGED <<listVars, lock, cblog, histVars, race, fault, scen>>

NextReenter ==
    \E t \in Threads :
        \/ \E d \in Data : MayInsert /\ list_push(t, TheList, d) /\ UNCHANGED scen
        \/ list_push_lock(t)
        \/ list_push_link(t)
        \/ list_push_unlock(t)
        \/ list_count(t, TheList) /\ UNCHANGED scen
        \/ list_count_lock(t)
        \/ list_count_unlock(t)
        \/ list_pop(t, TheList) /\ UNCHANGED scen
        \/ list_pop_lock(t)
        \/ list_pop_unlock(t)
        \/ list_enumerate(t, TheList, TRUE) /\ UNCHANGED scen
        \/ list_enumerate_lock(t)
        \/ list_enumerate_walk(t)
        \/ list_enumerate_unlock(t)
        \/ \E n \in MallocResults : \E f \in LockingCalls(n) : list_enumerate_callback(t, f)
        \/ Return(t)

SpecReenter == Init /\ [][NextReenter]_vars

(* ------------------- scenario: count, then get ------------------------- *)
\* The threads push payloads, none NULL and no allocation failing; then the
\* first thread calls list_count and, with the n it returned, list_get of an
\* index below n, while the other threads remove as they please.
CGPush(t, d) ==
    /\ scen.phase = "fill"
    /\ MayInsert
    /\ list_push(t, TheList, d)
    /\ th'[t].pc = "lock"
    /\ UNCHANGED scen

CGCount(t) ==
    /\ scen.phase = "fill"
    /\ list_count(t, TheList)
    /\ scen' = [scen EXCEPT !.phase = "count"]

CGGet(t, i) ==
    /\ scen.phase = "counted"
    /\ i < scen.n
    /\ list_get(t, TheList, i)
    /\ scen' = [scen EXCEPT !.phase = "get"]

InitCountGet == list_create /\ scen = [NoScen EXCEPT !.phase = "fill"]

NextCountGet ==
    \/ \E t \in Threads :
        \/ \E d \in Data \ {NULL} : CGPush(t, d)
        \/ list_push_lock(t)
        \/ list_push_link(t)
        \/ list_push_unlock(t)
    \/ \E t \in {Filler} :
        \/ CGCount(t)
        \/ list_count_lock(t)
        \/ list_count_unlock(t)
        \/ \E i \in Indexes : CGGet(t, i)
        \/ list_get_lock(t)
        \/ list_get_walk(t)
        \/ list_get_unlock(t)
    \/ \E t \in Threads \ {Filler} :
        \/ \E d \in Data \ {NULL} : list_remove(t, TheList, d) /\ UNCHANGED scen
        \/ list_remove_lock(t)
        \/ list_remove_walk(t)
        \/ list_remove_unlock(t)
        \/ \E i \in Indexes : list_delete(t, TheList, i) /\ UNCHANGED scen
        \/ list_delete_lock(t)
        \/ list_delete_walk(t)
        \/ list_delete_unlock(t)
        \/ list_pop(t, TheList) /\ UNCHANGED scen
        \/ list_pop_lock(t)
        \/ list_pop_unlock(t)
        \/ list_shift(t, TheList) /\ UNCHANGED scen
        \/ list_shift_lock(t)
        \/ list_shift_unlock(t)

SpecCountGet == InitCountGet /\ [][NextCountGet]_vars

(* ------------------- list_destroy among other calls -------------------- *)
\* The threads push, pop and count, and call list_destroy whenever they
\* please, during other calls and more than once.  A step whose behaviour is
\* undefined is taken as UseAfterFree.
NextDestroy ==
    \E t \in Threads :
        \/ \E d \in Data : MayInsert /\ list_push(t, TheList, d) /\ UNCHANGED scen
        \/ ~Dangling(t) /\ list_push_lock(t)
        \/ ~Dangling(t) /\ list_push_link(t)
        \/ ~Dangling(t) /\ list_push_unlock(t)
        \/ list_count(t, TheList) /\ UNCHANGED scen
        \/ ~Dangling(t) /\ list_count_lock(t)
        \/ ~Dangling(t) /\ list_count_unlock(t)
        \/ list_pop(t, TheList) /\ UNCHANGED scen
        \/ ~Dangling(t) /\ list_pop_lock(t)
        \/ ~Dangling(t) /\ list_pop_unlock(t)
        \/ list_destroy(t, TheList) /\ UNCHANGED scen
        \/ ~Dangling(t) /\ list_destroy_lock(t)
        \/ ~Dangling(t) /\ list_destroy_walk(t)
        \/ ~Dangling(t) /\ list_destroy_unlock(t)
        \/ ~Dangling(t) /\ list_destroy_mutex(t)
        \/ ~Dangling(t) /\ list_destroy_free(t)
        \/ UseAfterFree(t)

SpecDestroy == Init /\ [][NextDestroy]_vars

(* ------------------------------ properties ----------------------------- *)
Distinct(s) == \A i, j \in 1..Len(s) : i # j => s[i] # s[j]

\* The chain is a well-formed doubly linked list of count Nodes.
WellFormed ==
        /\ (count = 0) = (start = NULL)
        /\ (start = NULL) = (end = NULL)
        /\ Len(ChainNodes) = count
        /\ Distinct(ChainNodes)
        /\ count > 0 => /\ ChainNodes[count] = end
                        /\ node[end].next = NULL
                        /\ node[start].prev = NULL
        /\ \A i \in 1..Len(ChainNodes) :
             LET n == ChainNodes[i] IN
             /\ node[n].next # NULL => node[node[n].next].prev = n
             /\ node[n].prev # NULL => node[node[n].prev].next = n
             /\ i > 1 => node[n].prev = ChainNodes[i - 1]

\* C1: whenever the lock is not held, count = 0 iff start = NULL iff
\* end = NULL; following next from start visits exactly count distinct
\* Nodes, the last of which is end, and then reaches NULL; start's prev and
\* end's next are NULL; and next and prev mirror each other along the chain.
ChainInvariant == lock = 0 => WellFormed

\* A free list of two Nodes left after a third was unlinked and freed.
ChainInvariantWitness ==
    lock = 0 /\ ChainNodes = <<1, 3>> /\ alloc = {1, 3}

\* The threads between their lock acquisition and their unlock.
InCS(t) == th[t].pc \in {"link", "walk", "unlock", "segv"}

\* What a call about to return hands back agrees with r, the abstract call's
\* result; an enumerate has visited the abstract sequence and returns the OR
\* of its callback's answers.
Agrees(t, r) ==
    IF th[t].op = "enumerate" /\ th[t].pc = "unlock"
    THEN /\ Payloads(cblog[t]) = exp[t].seq
         /\ th[t].result = AnyTrue(cblog[t])
    ELSE ToString(RetVal(th[t])) = r

\* C2 (as amended): the calls are equivalent to the abstract calls taken one
\* at a time in lock-acquisition order, where remove of a non-NULL payload
\* deletes its first occurrence and remove of NULL changes nothing and returns
\* false: whenever the lock is free, or its holder is about to release it, the
\* chain holds the abstract sequence, and every call returns what its abstract
\* call returns.
Linearizable ==
    /\ ~fault
    /\ (lock = 0 \/ th[lock].pc = "unlock") => ChainSeq = abs
    /\ \A t \in Threads :
         th[t].pc \in {"unlock", "done"} => Agrees(t, exp[t].ret)

\* Two racing pushes: u allocated its Node first, t took the lock first.
LinearizableWitness ==
    \E t, u \in Threads :
        /\ At(t, "push", "unlock") /\ At(u, "push", "lock")
        /\ th[u].cur < th[t].cur
        /\ Len(abs) = 2

\* C2 as claimed: as Linearizable, with remove deleting the first occurrence
\* of any payload, NULL included.
LinearizableAsClaimed ==
    \A t \in Threads :
        th[t].pc \in {"unlock", "done"} => Agrees(t, exp[t].oret)

\* C3: no thread is between lock and unlock without holding the lock (so no
\* two are at once), and no step has read or written start, end, count or a
\* chained Node without its thread holding the lock.
MutualExclusion ==
    /\ ~race
    /\ \A t \in Threads : InCS(t) => lock = t

\* One thread walks the chain under the lock while another waits for it with
\* a Node it has already initialised.
MutualExclusionWitness ==
    \E t, u \in Threads :
        /\ th[t].pc = "walk" /\ th[t].cur # NULL /\ lock = t
        /\ At(u, "push", "lock")

\* The snapshot a call took with the lock: its Nodes and its payloads.
PreNodes(t) == [i \in 1..Len(pre[t]) |-> pre[t][i][1]]
PreData(t) == [i \in 1..Len(pre[t]) |-> pre[t][i][2]]

\* The chain is as the call of t found it.
Untouched(t) == ChainPairs = pre[t] /\ count = Len(pre[t])
\* The chain is as the call of t found it, less the Node at position p.
Without(t, p) == ChainPairs = DropAt(pre[t], p) /\ count = Len(pre[t]) - 1

\* The remove of a non-NULL x, about to unlock: it returns true exactly when
\* the chain held x, and then only the first Node holding x is gone.
RemoveDone(t) ==
    At(t, "remove", "unlock") =>
        LET p == FirstPos(PreData(t), th[t].data) IN
        /\ th[t].result = (p # 0)
        /\ IF p # 0 THEN Without(t, p) ELSE Untouched(t)

\* C7 (as amended): remove(list, x) for a non-NULL x returns true exactly when
\* some Node holds x, and then the sequence loses only the first Node holding
\* x and count drops by one; otherwise chain and count are unchanged.
\* remove(list, NULL) returns false, whatever the list holds.
RemoveFirstMatch ==
    \A t \in Threads :
        /\ RemoveDone(t)
        /\ At(t, "remove", "done") /\ th[t].pList # NULL => th[t].result = FALSE

\* A remove of x from three Nodes has succeeded and a later Node still holds x.
RemoveFirstMatchWitness ==
    \E t \in Threads :
        /\ At(t, "remove", "unlock") /\ th[t].result
        /\ Len(pre[t]) = 3
        /\ th[t].data \in Range(ChainSeq)

\* C7 as claimed: for every x, NULL included, remove returns true exactly when
\* some Node holds x.
RemoveAsClaimed ==
    \A t \in Threads :
        /\ RemoveDone(t)
        /\ At(t, "remove", "done") /\ th[t].pList # NULL => th[t].result = exp[t].had

\* C8: get(list, i), about to unlock, has the payload of the Node i hops from
\* start when i < count and NULL when i >= count, and the list is unchanged.
GetByIndex ==
    \A t \in Threads :
        At(t, "get", "unlock") =>
            /\ th[t].data = IF th[t].i0 < Len(pre[t]) THEN PreData(t)[th[t].i0 + 1] ELSE NULL
            /\ Untouched(t)

\* A get of the last of three elements, on a chain whose first Node is not
\* the first one allocated (removals have happened).
GetByIndexWitness ==
    \E t \in Threads :
        /\ At(t, "get", "unlock") /\ th[t].i0 = 2 /\ Len(pre[t]) = 3
        /\ th[t].data # NULL
        /\ ChainNodes[1] # 1

\* C9: delete(list, i), about to unlock: for i < count it returns true and only
\* the Node at position i is gone, the others keeping their order; for
\* i >= count it returns false and chain and count are unchanged.
DeleteByIndex ==
    \A t \in Threads :
        At(t, "delete", "unlock") =>
            IF th[t].i0 < Len(pre[t])
            THEN th[t].result /\ Without(t, th[t].i0 + 1)
            ELSE ~th[t].result /\ Untouched(t)

\* A delete of the interior Node of three.
DeleteByIndexWitness ==
    \E t \in Threads :
        /\ At(t, "delete", "unlock") /\ th[t].result
        /\ th[t].i0 = 1 /\ Len(pre[t]) = 3

\* C10: enumerate, about to unlock, has invoked the callback exactly count
\* times, on the payloads in start-to-end order, whatever the callback
\* answered, and returns the OR of the answers (false on an empty list).
EnumerateAll ==
    \A t \in Threads :
        At(t, "enumerate", "unlock") =>
            /\ Len(cblog[t]) = count
            /\ Payloads(cblog[t]) = ChainSeq
            /\ th[t].result = AnyTrue(cblog[t])

\* An enumerate of three elements whose first callback answered true and
\* whose later ones answered false.
EnumerateAllWitness ==
    \E t \in Threads :
        /\ At(t, "enumerate", "unlock") /\ Len(cblog[t]) = 3
        /\ cblog[t][1][2] /\ ~cblog[t][2][2] /\ ~cblog[t][3][2]

AllPushed == \A t \in Threads : th[t].pc = "idle" /\ scen.npush[t] = MPush

\* C4: NThreads threads pushing MPush payloads each, no allocation failing:
\* every push returns true; each thread's payloads are chained in the order
\* it pushed them; and once all have returned, count = NThreads * MPush, the
\* chain holds exactly the pushed payloads and is well formed.
ConcurrentPushes ==
    /\ \A t \in Threads : At(t, "push", "unlock") => th[t].result = TRUE
    /\ \A i, j \in 1..Len(ChainSeq) :
         i < j /\ OwnerOf(ChainSeq[i]) = OwnerOf(ChainSeq[j]) => ChainSeq[i] < ChainSeq[j]
    /\ AllPushed =>
         /\ count = NThreads * MPush
         /\ Len(ChainSeq) = count
         /\ Range(ChainSeq) = 1..(NThreads * MPush)
         /\ WellFormed

\* All pushes have returned and the threads' payloads are interleaved.
ConcurrentPushesWitness ==
    /\ AllPushed
    /\ OwnerOf(ChainSeq[1]) # OwnerOf(ChainSeq[2])
    /\ OwnerOf(ChainSeq[2]) # OwnerOf(ChainSeq[3])

Emptied ==
    th[Filler].pc = "idle" /\ scen.ndrain = Len(scen.ins) =>
        count = 0 /\ start = NULL /\ end = NULL

\* C5: after k pushes, the i-th of k pops returns the payload of the
\* (k-i+1)-th push, and the list is empty after the k-th.
PushPopLIFO ==
    scen.phase = "pop" =>
        /\ At(Filler, "pop", "unlock") =>
              th[Filler].data = scen.ins[Len(scen.ins) - scen.ndrain + 1]
        /\ Emptied

\* The third pop returns the first of three pushes, which differs from the last.
PushPopLIFOWitness ==
    /\ At(Filler, "pop", "unlock") /\ scen.ndrain = 3 /\ Len(scen.ins) = 3
    /\ scen.ins[1] # scen.ins[3] /\ scen.ins[1] # NULL

\* C6: after k pushes, the i-th of k shifts returns the payload of the i-th
\* push, and the list is empty after the k-th.
PushShiftFIFO ==
    scen.phase = "shift" =>
        /\ At(Filler, "shift", "unlock") => th[Filler].data = scen.ins[scen.ndrain]
        /\ Emptied

\* The third shift returns the last of three pushes, which differs from the first.
PushShiftFIFOWitness ==
    /\ At(Filler, "shift", "unlock") /\ scen.ndrain = 3 /\ Len(scen.ins) = 3
    /\ scen.ins[1] # scen.ins[3] /\ scen.ins[3] # NULL

(* ------------------------- the count as a tally ------------------------ *)
\* The list_add call of payload d that thread t is in is, at every step, the
\* list_push call of d: the same frame, and at its return the same chain and
\* the same result.
AddIsPush(t, d) ==
    /\ th[t].op = "push"
    /\ th[t].pList = TheList
    /\ th[t].data = d
    /\ th[t].pc \in {"lock", "link"} => node[th[t].cur].data = d
    /\ th[t].pc = "unlock" =>
          /\ th[t].result
          /\ ChainPairs = Append(pre[t], <<th[t].cur, d>>)
          /\ count = Len(pre[t]) + 1
    /\ th[t].pc = "done" => ~RetVal(th[t])

\* C11: when no call is in progress, count is the number of insertions that
\* succeeded less the number of removals that succeeded (so after insertions
\* only, the number of insertions), and it is the length of the chain; a
\* list_add call has the effect and the result of the list_push call of the
\* same arguments.
CountIsTally ==
    /\ Quiescent =>
          /\ count = scen.nins - scen.nrem
          /\ count = Len(ChainSeq)
          /\ scen.nrem = 0 => count = scen.nins
    /\ \A t \in Threads :
          (th[t].pc # "idle" /\ scen.via[t] # << >>) => AddIsPush(t, scen.via[t][1])

\* Both threads have finished calls, insertions (an add among them) and
\* removals have succeeded, and Nodes remain.
CountIsTallyWitness ==
    /\ Quiescent
    /\ scen.phase = "tally"
    /\ scen.nins >= 3
    /\ scen.nrem >= 1
    /\ count = 2
    /\ \E t \in Threads : scen.via[t] # << >>

(* ---------------------- a push whose malloc fails ---------------------- *)
\* Thread t enters list_push on the list and its allocation fails.
PushFails(t) == th[t].pc = "idle" /\ th'[t].op = "push" /\ th'[t].pc = "done"
\* Thread t returns from a call that took no lock.
PushReturns(t) == th[t].op = "push" /\ th[t].pc = "done" /\ th'[t] # th[t]
\* Thread t links the Node of a push.
PushLinks(t) == th[t].op = "push" /\ th[t].pc = "link" /\ th'[t] # th[t]

AllocFailure ==
    \A t \in Threads :
        /\ PushFails(t) =>
              /\ ~RetVal(th'[t])
              /\ lock' = lock
              /\ listVars' = listVars
              /\ heapVars' = heapVars
        /\ PushReturns(t) =>
              /\ th'[t] = IdleFrame
              /\ lock' = lock
              /\ listVars' = listVars
              /\ heapVars' = heapVars
        /\ PushLinks(t) =>
              /\ RetVal(th'[t])
              /\ ChainPairs' = Append(ChainPairs, <<th[t].cur, th[t].data>>)
              /\ count' = count + 1

\* C12: a push or add whose Node allocation fails returns false without ever
\* taking the lock, and leaves start, end, count, every Node and the set of
\* allocated Nodes as they were; a push that gets its Node, after a failed
\* one or not, appends it and returns true.
PushAllocFails == [][AllocFailure]_vars

\* A thread whose first call was a push that failed for want of memory is
\* about to return true from a second push that made the chain one Node; the
\* other thread has called nothing.
PushAllocFailsWitness ==
    \E t \in Threads :
        /\ At(t, "push", "unlock")
        /\ th[t].result
        /\ scen.nfail = 1
        /\ scen.ncall[t] = 2
        /\ \A u \in Threads \ {t} : scen.ncall[u] = 0
        /\ count = 1

(* ----------------------------- Node lifetime --------------------------- *)
\* The list is live: list_destroy has not been called on it.
Live == scen.phase # "destroy" /\ lock \notin {Destroyed, Freed}

\* Thread t enters a push that gets its Node n.
Allocates(t, n) ==
    /\ th[t].pc = "idle"
    /\ th'[t].op = "push" /\ th'[t].pc = "lock" /\ th'[t].cur = n
    /\ n \notin alloc
    /\ alloc' = alloc \cup {n}
\* Thread t, inside a removing call or list_destroy, frees the allocated Node n.
Frees(t, n) ==
    /\ th[t].op \in {"remove", "delete", "pop", "shift", "destroy"}
    /\ th[t].pc \in {"lock", "walk"}
    /\ n \in alloc
    /\ alloc' = alloc \ {n}

LifetimeState ==
    /\ ~fault
    /\ \A t \in Threads : ~Dangling(t)
    /\ (Quiescent /\ Live) => alloc = Range(ChainNodes)
    /\ \A t \in Threads :
          (th[t].op = "destroy" /\ th[t].pc \in {"unlock", "mutex", "free"}) =>
              /\ alloc = {}
              /\ count = 0
              /\ lock = (CASE th[t].pc = "unlock" -> t
                           [] th[t].pc = "mutex" -> 0
                           [] th[t].pc = "free" -> Destroyed)
    /\ lock = Destroyed => \E t \in Threads : At(t, "destroy", "free")
    /\ lock = Freed => (Quiescent /\ alloc = {})

LifetimeStep ==
    /\ alloc' # alloc => \E t \in Threads, n \in Nodes : Allocates(t, n) \/ Frees(t, n)
    /\ \A n \in alloc \cap alloc' : node'[n].data = node[n].data
    /\ (lock' = Freed /\ lock # Freed) => lock = Destroyed
    /\ (lock' = Destroyed /\ lock # Destroyed) => lock = 0

\* C13: a Node is allocated only by a push or add that succeeds and freed
\* only by remove, delete, pop, shift or list_destroy, never twice and never
\* used after; with no call in progress the allocated Nodes of a live list
\* are those of the chain; list_destroy frees every Node, then unlocks, then
\* destroys the mutex, then frees the list, and no step changes the payload
\* reference of a Node that stays allocated.
NodeLifetime == [](LifetimeState) /\ [][LifetimeStep]_vars

\* list_destroy has returned from a list of three Nodes.
NodeLifetimeWitness ==
    /\ lock = Freed
    /\ scen.nins = 3
    /\ scen.nrem = 0
    /\ Quiescent

(* ------------------------- calls given no list ------------------------- *)
\* Thread t enters a call on no list, or an enumerate with no callback.
AbsentCall(t) ==
    /\ th[t].pc = "idle"
    /\ th'[t].pc # "idle"
    /\ th'[t].pList = NULL \/ (th'[t].op = "enumerate" /\ ~th'[t].cb)

ListUntouched ==
    /\ lock' = lock
    /\ listVars' = listVars
    /\ heapVars' = heapVars
    /\ cblog' = cblog

AbsentStep ==
    \A t \in Threads :
        /\ AbsentCall(t) =>
              /\ th'[t].pc = "done"
              /\ RetVal(th'[t]) = FailVal(th'[t].op)
              /\ ListUntouched
        /\ (th[t].pc = "done" /\ th'[t] # th[t]) =>
              /\ th'[t] = IdleFrame
              /\ ListUntouched

\* C14: a call of any public function on no list returns the function's
\* failure value (0 for count, NULL for get, pop and shift, false for push,
\* add, remove, delete and enumerate, nothing for destroy), and so does an
\* enumerate with no callback; from entry to return the call leaves the
\* lock, start, end, count, every Node and the callback log as they were.
AbsentListFails == [][AbsentStep]_vars

\* A destroy of no list and an enumerate with no callback are about to
\* return, on a list of two Nodes.
AbsentListFailsWitness ==
    \E t, u \in Threads :
        /\ th[t].op = "destroy" /\ th[t].pc = "done" /\ th[t].pList = NULL
        /\ th[u].op = "enumerate" /\ th[u].pc = "done" /\ th[u].pList = TheList
        /\ count = 2

(* --------------------------- lock discipline --------------------------- *)
\* C15: whatever path a call returns by, it has released the lock: the lock
\* is free whenever no call is in progress, and held only by a thread inside
\* its critical section; with a fair mutex and callbacks that return and call
\* nothing on the list, every call returns.
LockReleased ==
    /\ [](Quiescent => lock = 0)
    /\ [](\A t \in Threads : lock = t => InCS(t))
    /\ \A t \in Threads : (th[t].pc # "idle") ~> (th[t].pc = "idle")

\* A get past the end of the list holds the lock on its early return path
\* while the other thread waits for it.
LockReleasedWitness ==
    \E t, u \in Threads :
        /\ At(t, "get", "unlock")
        /\ th[t].index >= count
        /\ lock = t
        /\ th[u].pc = "lock"

(* ------------------------ re-entry from a callback --------------------- *)
\* Thread t is inside a call made by the callback of its own enumerate.
Reentered(t) == th[t].outer # << >>
\* Thread t is at the pthread_mutex_lock of a call on the list.
Waiting(t) == th[t].pc = "lock" /\ th[t].pList = TheList

SelfDeadlock ==
    \A t \in Threads :
        Reentered(t) =>
            /\ Len(ChainSeq) > 0
            /\ Waiting(t)
            /\ lock = t /\ lock' = t
            /\ th'[t] = th[t]
            /\ \A u \in Threads : Waiting(u) => th'[u] = th[u]

\* C16: when the callback of an enumerate calls a function that reaches
\* pthread_mutex_lock on the list being enumerated (which is then not
\* empty), the thread waits there for the lock it holds: from then on it
\* never moves, the lock stays held, and no thread that reaches the lock of a
\* call on the list ever gets past it.
ReentryBlocks == [][SelfDeadlock]_vars

\* A thread waits on itself in a count its callback called, and the other
\* thread waits at the lock of a pop.
ReentryBlocksWitness ==
    \E t, u \in Threads :
        /\ Reentered(t)
        /\ th[t].op = "count"
        /\ u # t
        /\ Waiting(u)
        /\ th[u].op = "pop"

(* --------------------------- count, then get --------------------------- *)
\* The scripted get is about to return.
GetAfterCount == scen.phase = "get" /\ At(Filler, "get", "unlock")

\* C17: a list_count and the list_get that follows it are atomic one by one
\* and not as a pair.  The get of an index below the n that count returned
\* hands back what the chain holds at that index when the get takes the
\* lock, NULL when it holds nothing there; that is the payload count saw at
\* the index when no removal came between the two calls, and need not be
\* when one did.
CountThenGet ==
    GetAfterCount =>
        LET i == th[Filler].i0
            now == PreData(Filler)
        IN  /\ scen.n = Len(scen.snap)
            /\ i < scen.n
            /\ th[Filler].data = IF i < Len(now) THEN now[i + 1] ELSE NULL
            /\ scen.nrem = 0 => th[Filler].data = scen.snap[i + 1]

\* count returned n > 0, another thread then removed a Node, and the get of
\* an index below n returns NULL.
CountThenGetWitness ==
    /\ GetAfterCount
    /\ scen.n > 0
    /\ th[Filler].i0 < scen.n
    /\ scen.nrem >= 1
    /\ scen.snap[th[Filler].i0 + 1] # NULL
    /\ th[Filler].data = NULL

(* ---------------------- list_destroy among other calls ----------------- *)
\* Thread t has finished the loop of list_destroy and not yet unlocked.
Destroying(t) == At(t, "destroy", "unlock")

\* The Nodes malloc has handed to the pushes that wait for the lock: they may
\* be Nodes list_destroy has just freed.
Reused == {th[u].cur : u \in {v \in Threads : At(v, "push", "lock")}}

\* C18: list_destroy frees every Node of the chain and sets count to 0 but
\* leaves start and end as they were, so that after a destroy of a list that
\* was not empty they refer to freed Nodes while count is 0; a pop or a push
\* that gets the lock then, or a second destroy, uses a freed Node.
DestroyDangles ==
    ~fault =>
        \A t \in Threads :
            /\ Destroying(t) =>
                  /\ count = 0
                  /\ Range(PreNodes(t)) \cap alloc \subseteq Reused
                  /\ start = (IF pre[t] = << >> THEN NULL ELSE PreNodes(t)[1])
                  /\ end = (IF pre[t] = << >> THEN NULL ELSE PreNodes(t)[Len(pre[t])])
                  /\ pre[t] # << >> => {start, end} \cap (alloc \ Reused) = {}
            /\ (end # NULL /\ end \notin alloc) =>
                  /\ At(t, "push", "link") => Dangling(t)
                  /\ (At(t, "pop", "lock") /\ lock = 0) => Dangling(t)
            /\ (start # NULL /\ start \notin alloc) =>
                  /\ (At(t, "destroy", "walk") /\ th[t].cur = start) => Dangling(t)

\* list_destroy has freed the Nodes and unlocked; the other thread, which
\* waited with its Node, has the lock and has written to the freed Node end
\* refers to, count being 0.
DestroyDanglesWitness ==
    \E t, u \in Threads :
        /\ At(t, "destroy", "mutex")
        /\ th[u].op = "push" /\ th[u].pc = "segv"
        /\ lock = u
        /\ fault
        /\ count = 0
        /\ end # NULL /\ end \notin alloc

(* ------------------------------ frame effects -------------------------- *)
\* Thread t takes a step of a call of one of the functions ops.
StepOf(t, ops) == th'[t] # th[t] /\ (th[t].op \in ops \/ th'[t].op \in ops)

\* The chain after the step is the chain before it, or that less one Node.
OrderKept == \E p \in 0..Len(ChainNodes) : ChainNodes' = DropAt(ChainNodes, p)

FrameEffect ==
    \A t \in Threads :
        /\ StepOf(t, {"count", "get", "enumerate"}) =>
              /\ listVars' = listVars
              /\ heapVars' = heapVars
        /\ StepOf(t, {"remove", "delete", "pop", "shift"}) =>
              /\ \A n \in alloc' : node'[n].data = node[n].data
              /\ alloc' \subseteq alloc
              /\ OrderKept

\* C19: no step of count, get or enumerate (whose callback calls nothing on
\* the list) changes start, end, count, a Node's data, prev or next, or the
\* set of allocated Nodes; no step of remove, delete, pop or shift changes
\* the data of a Node that stays or the order of the Nodes that stay.
FramesKept == [][FrameEffect]_vars

\* A thread has deleted the middle Node of three and is about to return,
\* while the other waits for the lock in enumerate.
FramesKeptWitness ==
    \E t, u \in Threads :
        /\ At(t, "enumerate", "lock")
        /\ At(u, "delete", "unlock")
        /\ th[u].result
        /\ th[u].i0 = 1
        /\ count = 2

(* --------------------- the calls of list_remove_node ------------------- *)
\* The pNode that the next step of thread t passes to list_remove_node, as
\* <<pNode>>; << >> when the step does not call it.
RemoveNodeArg(t) ==
    LET f == th[t] IN
    CASE f.op = "remove" /\ f.pc = "walk"
           /\ (f.cur = NULL \/ node[f.cur].data = f.data) -> <<f.cur>>
      [] f.op = "delete" /\ f.pc = "walk" /\ f.cur # NULL /\ f.index = 0 -> <<f.cur>>
      [] f.op = "pop" /\ f.pc = "lock" /\ lock = 0 /\ end # NULL -> <<end>>
      [] f.op = "shift" /\ f.pc = "lock" /\ lock = 0 /\ start # NULL -> <<start>>
      [] OTHER -> << >>

\* C20: list_remove_node is called by a thread that holds the lock (pop and
\* shift call it in the code that follows their pthread_mutex_lock), with
\* NULL or a Node of the chain; so with a Node count is at least 1, count - 1
\* does not wrap, and count - 1 == 0 exactly when the Node is the only one.
RemoveNodeCalls ==
    \A t \in Threads :
        RemoveNodeArg(t) # << >> =>
            LET pNode == RemoveNodeArg(t)[1] IN
            /\ lock = t \/ (th[t].pc = "lock" /\ lock = 0)
            /\ \A u \in Threads \ {t} : ~InCS(u)
            /\ pNode = NULL \/ InChain(pNode)
            /\ pNode # NULL =>
                  /\ count >= 1
                  /\ USub(count, 1) = count - 1
                  /\ USub(count, 1) = 0 <=> ChainNodes = <<pNode>>

\* A remove has found, by its payload, the only Node of the chain and is
\* about to pass it to list_remove_node.
RemoveNodeCallsWitness ==
    \E t \in Threads :
        /\ At(t, "remove", "walk")
        /\ RemoveNodeArg(t) = <<start>>
        /\ start # NULL
        /\ count = 1

============================================================================
